---- MODULE Spec2Model ----
(***************************************************************************)
(* Model of mesonbuild/modules/guile.py: GuileModule.find_installation.    *)
(*                                                                         *)
(* One call of find_installation is a walk of the program counter pc      *)
(*   idle -> query -> extract -> probe* -> log -> verdict -> done -> idle  *)
(* The collaborators (pkg-config lookup, Popen_safe, mlog.log) are the     *)
(* environment: their answers are chosen nondeterministically where the    *)
(* code asks for them, and what the code hands to them is recorded in      *)
(* spawned (subprocesses) and logged (log lines).                          *)
(***************************************************************************)
EXTENDS Integers, Sequences, FiniteSets, TLC

VARIABLES
    pc,               \* position inside find_installation
    args,             \* args[0], the pkg-config package name
    required,         \* the boolean extract_required_kwarg resolved
    want_modules,     \* kwargs['modules']
    libguile,         \* the PkgConfigDependency: found flag and variables
    guile,            \* GuileExternalProgram (local)
    guild,            \* GuildExternalProgram (local)
    found_modules,    \* local list
    missing_modules,  \* local list
    i,                \* number of entries of want_modules the loop has done
    spawned,          \* Popen_safe calls of this call: argv and returncode
    logged,           \* mlog.log lines of this call
    result,           \* how the call ended
    installations,    \* self.installations of the GuileModule object
    saved             \* an earlier finished call, kept for comparison

vars == <<pc, args, required, want_modules, libguile, guile, guild,
          found_modules, missing_modules, i, spawned, logged, result,
          installations, saved>>

-----------------------------------------------------------------------------
(* Bounds and input domains *)

MaxModules == 2
MaxModulesTwice == 1

PackageNames == {"guile-3.0", "guile-2.2"}
ModuleNames == {"ice-9 format", "srfi srfi-1"}
ReturnCodes == {0, 1}
VarValues == {[present |-> FALSE, value |-> ""],
              [present |-> TRUE, value |-> ""],
              [present |-> TRUE, value |-> "/usr/bin/guile-tool"]}

SeqsUpTo(S, n) == UNION {[1..k -> S] : k \in 0..n}

-----------------------------------------------------------------------------
(* Values *)

NoProgram == [name |-> "", command |-> <<>>, found |-> FALSE]
NoDependency == [found |-> FALSE, guile |-> [present |-> FALSE, value |-> ""],
                 guild |-> [present |-> FALSE, value |-> ""]]
NoResult == [outcome |-> "running", at |-> "", msg |-> "",
             guile |-> NoProgram, guild |-> NoProgram]
NoCall == [used |-> FALSE]

RECURSIVE Join(_, _)
\* sep.join(s)
Join(sep, s) ==
    IF s = <<>> THEN ""
    ELSE IF Len(s) = 1 THEN s[1]
    ELSE s[1] \o sep \o Join(sep, Tail(s))

\* mlog styled and plain tokens
Plain(t) == [style |-> "plain", text |-> t]
Bold(t) == [style |-> "bold", text |-> t]
Green(t) == [style |-> "green", text |-> t]
Red(t) == [style |-> "red", text |-> t]

\* libguile.get_variable(pkgconfig = key): the value, empty when absent
GetVariable(dep, key) ==
    LET v == IF key = "guile" THEN dep.guile ELSE dep.guild
    IN IF v.present THEN v.value ELSE ""

\* ExternalProgram(name, command = [path]): found unless the path is empty
ExternalProgram(name, path) ==
    [name |-> name, command |-> <<path>>, found |-> path # ""]

\* GuileInstallation(guile, guild)
GuileInstallation(g, d) ==
    [outcome |-> "GuileInstallation", at |-> "return", msg |-> "",
     guile |-> g, guild |-> d]

\* return None, explicit or by falling off the end of the function
ReturnNone(where) ==
    [outcome |-> "None", at |-> where, msg |-> "",
     guile |-> NoProgram, guild |-> NoProgram]

\* raise mesonlib.MesonException(msg)
Raise(where, m) ==
    [outcome |-> "MesonException", at |-> where, msg |-> m,
     guile |-> NoProgram, guild |-> NoProgram]

\* variant: the lists live on the object and are never emptied
NewListKept(previous) == previous

\* found_modules: T.List[str] = [] ; missing_modules: T.List[str] = []
NewList(previous) == <<>>

-----------------------------------------------------------------------------
(* Initial state: the module object as GuileModule.__init__ leaves it *)

Init ==
    /\ pc = "idle"
    /\ args = "guile-3.0"
    /\ required = TRUE
    /\ want_modules = <<>>
    /\ libguile = NoDependency
    /\ guile = NoProgram
    /\ guild = NoProgram
    /\ found_modules = <<>>
    /\ missing_modules = <<>>
    /\ i = 0
    /\ spawned = <<>>
    /\ logged = <<>>
    /\ result = NoResult
    /\ installations = <<>>
    /\ saved = NoCall

-----------------------------------------------------------------------------
(* find_installation, one step per action *)

\* entry: the interpreter calls the method with validated args and kwargs
CallWith(names, maxlen) ==
    /\ pc = "idle"
    /\ \E name \in names, req \in BOOLEAN,
          mods \in SeqsUpTo(ModuleNames, maxlen) :
            /\ args' = name
            /\ required' = req
            /\ want_modules' = mods
    /\ libguile' = NoDependency
    /\ guile' = NoProgram
    /\ guild' = NoProgram
    /\ i' = 0
    /\ spawned' = <<>>
    /\ logged' = <<>>
    /\ result' = NoResult
    /\ pc' = "query"
    /\ UNCHANGED <<found_modules, missing_modules, installations, saved>>

Call == CallWith(PackageNames, MaxModules)

\* the same entry over a smaller input domain, for the comparison of calls
CallTwice == CallWith({"guile-3.0"}, MaxModulesTwice)

\* lines 80-85: the pkg-config lookup and the not-found exit
Query ==
    /\ pc = "query"
    /\ \E dep \in {NoDependency} \cup
                  {[found |-> TRUE, guile |-> a, guild |-> b] :
                      a \in VarValues, b \in VarValues} :
          /\ libguile' = dep
          /\ IF ~dep.found
             THEN /\ result' = IF required
                               THEN Raise("libguile", args \o " not found")
                               ELSE ReturnNone("libguile")
                  /\ pc' = "done"
             ELSE /\ result' = result
                  /\ pc' = "extract"
    /\ UNCHANGED <<args, required, want_modules, guile, guild, found_modules,
                   missing_modules, i, spawned, logged, installations, saved>>

\* variant: the loop's guard forgets guile.found()
ExtractProbeAlways ==
    /\ pc = "extract"
    /\ guile' = ExternalProgram("guile", GetVariable(libguile, "guile"))
    /\ guild' = ExternalProgram("guild", GetVariable(libguile, "guild"))
    /\ found_modules' = NewList(found_modules)
    /\ missing_modules' = NewList(missing_modules)
    /\ i' = 0
    /\ pc' = IF want_modules # <<>> THEN "probe" ELSE "log"
    /\ UNCHANGED <<args, required, want_modules, libguile, spawned, logged,
                   result, installations, saved>>

\* lines 89-95: the two programs, the empty lists, the loop's guard
Extract ==
    /\ pc = "extract"
    /\ guile' = ExternalProgram("guile", GetVariable(libguile, "guile"))
    /\ guild' = ExternalProgram("guild", GetVariable(libguile, "guild"))
    /\ found_modules' = NewList(found_modules)
    /\ missing_modules' = NewList(missing_modules)
    /\ i' = 0
    /\ pc' = IF guile'.found /\ want_modules # <<>> THEN "probe" ELSE "log"
    /\ UNCHANGED <<args, required, want_modules, libguile, spawned, logged,
                   result, installations, saved>>

\* the argv of one probe, line 98-99
ProbeArgv(prog, mod) ==
    prog.command \o <<"-c", "(use-modules (" \o mod \o "))">>

\* variant: insert(0, mod) instead of append(mod)
ProbePrepend ==
    /\ pc = "probe"
    /\ i < Len(want_modules)
    /\ LET mod == want_modules[i + 1] IN
       \E returncode \in ReturnCodes :
          /\ spawned' = Append(spawned, [argv |-> ProbeArgv(guile, mod),
                                         returncode |-> returncode])
          /\ IF returncode # 0
             THEN /\ missing_modules' = <<mod>> \o missing_modules
                  /\ found_modules' = found_modules
             ELSE /\ found_modules' = <<mod>> \o found_modules
                  /\ missing_modules' = missing_modules
    /\ i' = i + 1
    /\ pc' = IF i' = Len(want_modules) THEN "log" ELSE "probe"
    /\ UNCHANGED <<args, required, want_modules, libguile, guile, guild,
                   logged, result, installations, saved>>

\* variant: a failed probe is not recorded
ProbeDropsMissing ==
    /\ pc = "probe"
    /\ i < Len(want_modules)
    /\ LET mod == want_modules[i + 1] IN
       \E returncode \in ReturnCodes :
          /\ spawned' = Append(spawned, [argv |-> ProbeArgv(guile, mod),
                                         returncode |-> returncode])
          /\ IF returncode # 0
             THEN /\ missing_modules' = missing_modules
                  /\ found_modules' = found_modules
             ELSE /\ found_modules' = Append(found_modules, mod)
                  /\ missing_modules' = missing_modules
    /\ i' = i + 1
    /\ pc' = IF i' = Len(want_modules) THEN "log" ELSE "probe"
    /\ UNCHANGED <<args, required, want_modules, libguile, guile, guild,
                   logged, result, installations, saved>>

\* lines 96-103: one iteration of the for loop
Probe ==
    /\ pc = "probe"
    /\ i < Len(want_modules)
    /\ LET mod == want_modules[i + 1] IN
       \E returncode \in ReturnCodes :
          /\ spawned' = Append(spawned, [argv |-> ProbeArgv(guile, mod),
                                         returncode |-> returncode])
          /\ IF returncode # 0
             THEN /\ missing_modules' = Append(missing_modules, mod)
                  /\ found_modules' = found_modules
             ELSE /\ found_modules' = Append(found_modules, mod)
                  /\ missing_modules' = missing_modules
    /\ i' = i + 1
    /\ pc' = IF i' = Len(want_modules) THEN "log" ELSE "probe"
    /\ UNCHANGED <<args, required, want_modules, libguile, guile, guild,
                   logged, result, installations, saved>>

\* variant: the verdict looks at guile.found() only
MessageIgnoresMissing(prog, want, found, missing) ==
    <<Plain("Program"), Bold(prog.name)>>
    \o (IF want # <<>> THEN <<Plain("(" \o Join(", ", want) \o ")")>> ELSE <<>>)
    \o <<Plain("found:")>>
    \o (IF prog.found
        THEN <<Green("YES"), Plain("(" \o Join(" ", prog.command) \o ")")>>
        ELSE <<Red("NO")>>)
    \o (IF found # <<>>
        THEN <<Plain("modules:"), Plain(Join(", ", found))>>
        ELSE <<>>)

\* lines 105-115: the tokens of the log line
Message(prog, want, found, missing) ==
    <<Plain("Program"), Bold(prog.name)>>
    \o (IF want # <<>> THEN <<Plain("(" \o Join(", ", want) \o ")")>> ELSE <<>>)
    \o <<Plain("found:")>>
    \o (IF prog.found /\ missing = <<>>
        THEN <<Green("YES"), Plain("(" \o Join(" ", prog.command) \o ")")>>
        ELSE <<Red("NO")>>)
    \o (IF found # <<>>
        THEN <<Plain("modules:"), Plain(Join(", ", found))>>
        ELSE <<>>)

\* variant: the line is built but never handed to mlog.log
LogSkipped ==
    /\ pc = "log"
    /\ pc' = "verdict"
    /\ UNCHANGED <<args, required, want_modules, libguile, guile, guild,
                   found_modules, missing_modules, i, spawned, logged, result,
                   installations, saved>>

\* line 117: mlog.log(*msg)
Log ==
    /\ pc = "log"
    /\ logged' = Append(logged, Message(guile, want_modules, found_modules,
                                        missing_modules))
    /\ pc' = "verdict"
    /\ UNCHANGED <<args, required, want_modules, libguile, guile, guild,
                   found_modules, missing_modules, i, spawned, result,
                   installations, saved>>

\* variant: the guild branch is missing from the chain
OutcomeNoGuildCheck(g, d, missing, req) ==
    IF ~g.found
    THEN IF req THEN Raise("guile", g.name \o " not found")
                ELSE ReturnNone("guile")
    ELSE IF missing # <<>>
    THEN IF req THEN Raise("modules", g.name \o " is missing modules: "
                                      \o Join(", ", missing))
                ELSE ReturnNone("modules")
    ELSE GuileInstallation(g, d)

\* variant: the guild branch raises without looking at required
OutcomeGuildAlwaysRaises(g, d, missing, req) ==
    IF ~g.found
    THEN IF req THEN Raise("guile", g.name \o " not found")
                ELSE ReturnNone("guile")
    ELSE IF missing # <<>>
    THEN IF req THEN Raise("modules", g.name \o " is missing modules: "
                                      \o Join(", ", missing))
                ELSE ReturnNone("modules")
    ELSE IF ~d.found
    THEN Raise("guild", d.name \o " not found")
    ELSE GuileInstallation(g, d)

\* variant: the guild branch comes before the modules branch
OutcomeGuildBeforeModules(g, d, missing, req) ==
    IF ~g.found
    THEN IF req THEN Raise("guile", g.name \o " not found")
                ELSE ReturnNone("guile")
    ELSE IF ~d.found
    THEN IF req THEN Raise("guild", d.name \o " not found")
                ELSE ReturnNone("guild")
    ELSE IF missing # <<>>
    THEN IF req THEN Raise("modules", g.name \o " is missing modules: "
                                      \o Join(", ", missing))
                ELSE ReturnNone("modules")
    ELSE GuileInstallation(g, d)

\* variant: the guile branch raises without looking at required
OutcomeGuileAlwaysRaises(g, d, missing, req) ==
    IF ~g.found
    THEN Raise("guile", g.name \o " not found")
    ELSE IF missing # <<>>
    THEN IF req THEN Raise("modules", g.name \o " is missing modules: "
                                      \o Join(", ", missing))
                ELSE ReturnNone("modules")
    ELSE IF ~d.found
    THEN IF req THEN Raise("guild", d.name \o " not found")
                ELSE ReturnNone("guild")
    ELSE GuileInstallation(g, d)

\* lines 119-131: the if / elif chain that ends the call
Outcome(g, d, missing, req) ==
    IF ~g.found
    THEN IF req THEN Raise("guile", g.name \o " not found")
                ELSE ReturnNone("guile")
    ELSE IF missing # <<>>
    THEN IF req THEN Raise("modules", g.name \o " is missing modules: "
                                      \o Join(", ", missing))
                ELSE ReturnNone("modules")
    ELSE IF ~d.found
    THEN IF req THEN Raise("guild", d.name \o " not found")
                ELSE ReturnNone("guild")
    ELSE GuileInstallation(g, d)

Verdict ==
    /\ pc = "verdict"
    /\ result' = Outcome(guile, guild, missing_modules, required)
    /\ pc' = "done"
    /\ UNCHANGED <<args, required, want_modules, libguile, guile, guild,
                   found_modules, missing_modules, i, spawned, logged,
                   installations, saved>>

\* the call is over; the module object is ready for the next one
Return ==
    /\ pc = "done"
    /\ pc' = "idle"
    /\ UNCHANGED <<args, required, want_modules, libguile, guile, guild,
                   found_modules, missing_modules, i, spawned, logged, result,
                   installations, saved>>

\* what went into the finished call and what came out of it
ThisCall ==
    [used |-> TRUE,
     args |-> args, required |-> required, want_modules |-> want_modules,
     libguile |-> libguile,
     returncodes |-> [k \in 1..Len(spawned) |-> spawned[k].returncode],
     result |-> result, logged |-> logged,
     argvs |-> [k \in 1..Len(spawned) |-> spawned[k].argv]]

\* the call is over and an observer keeps it to compare later calls with it
ReturnSaved ==
    /\ pc = "done"
    /\ saved' = ThisCall
    /\ pc' = "idle"
    /\ UNCHANGED <<args, required, want_modules, libguile, guile, guild,
                   found_modules, missing_modules, i, spawned, logged, result,
                   installations>>

Next == Call \/ Query \/ Extract \/ Probe \/ Log \/ Verdict \/ Return

Spec == Init /\ [][Next]_vars

NextTwice ==
    CallTwice \/ Query \/ Extract \/ Probe \/ Log \/ Verdict \/ Return
    \/ ReturnSaved

SpecTwice == Init /\ [][NextTwice]_vars

-----------------------------------------------------------------------------
(* Vocabulary of the properties *)

Set(s) == {s[k] : k \in DOMAIN s}
Codes == [k \in 1..Len(spawned) |-> spawned[k].returncode]
Finished == pc = "done"
\* the call got past the dependency lookup and built both programs
AfterExtract == libguile.found /\ pc \in {"probe", "log", "verdict", "done"}
\* ... and is past the probing loop (whether or not it ran)
AfterProbe == libguile.found /\ pc \in {"log", "verdict", "done"}
\* the probing loop ran
Probed == AfterProbe /\ guile.found /\ want_modules # <<>>

RECURSIVE Kept(_, _, _)
\* the entries of mods whose return code is zero (zero = TRUE) or non-zero
Kept(mods, codes, zero) ==
    IF mods = <<>> THEN <<>>
    ELSE (IF (Head(codes) = 0) = zero THEN <<Head(mods)>> ELSE <<>>)
         \o Kept(Tail(mods), Tail(codes), zero)

\* the one log line of a call that logged
Line == logged[1]
FoundAt == CHOOSE k \in DOMAIN Line : Line[k] = Plain("found:")

-----------------------------------------------------------------------------
(* C1: a finished call ends in a GuileInstallation, None or an exception;  *)
(* it ends in a GuileInstallation only if the dependency was found, both   *)
(* programs it carries are found and are the ones built from the           *)
(* dependency, and no requested module was classified missing (every probe *)
(* exited 0); otherwise the result carries no program at all.              *)
C1_InstallationOnlyWhenComplete ==
    Finished =>
        /\ result.outcome \in {"GuileInstallation", "None", "MesonException"}
        /\ result.outcome = "GuileInstallation" =>
              /\ libguile.found
              /\ result.guile = guile /\ result.guile.found
              /\ result.guild = guild /\ result.guild.found
              /\ missing_modules = <<>>
              /\ \A k \in DOMAIN spawned : spawned[k].returncode = 0
        /\ result.outcome # "GuileInstallation" =>
              result.guile = NoProgram /\ result.guild = NoProgram

C1_Witness ==
    /\ Finished
    /\ result.outcome = "GuileInstallation"
    /\ Len(want_modules) = 2

(* C2: with required false a finished call never ends in an exception, and *)
(* each of the four failure conditions ends in None, the guild branch that *)
(* has no return statement included.                                       *)
C2_NotRequiredNeverRaises ==
    (Finished /\ ~required) =>
        /\ result.outcome # "MesonException"
        /\ (~libguile.found \/ ~guile.found \/ missing_modules # <<>>
            \/ ~guild.found) => result.outcome = "None"

C2_Witness ==
    /\ Finished /\ ~required
    /\ libguile.found /\ guile.found /\ missing_modules = <<>>
    /\ ~guild.found
    /\ result.outcome = "None"

(* C3: with required true a finished call never ends in None; it raises    *)
(* for the first unsatisfied stage in the order dependency, guile,         *)
(* modules, guild, with the package name, the program name or the exact    *)
(* list of missing modules in the message, and otherwise returns the       *)
(* installation.                                                           *)
C3_RequiredFirstFailure ==
    (Finished /\ required) =>
        /\ result.outcome # "None"
        /\ IF ~libguile.found
           THEN /\ result.outcome = "MesonException"
                /\ result.at = "libguile"
                /\ result.msg = args \o " not found"
           ELSE IF ~guile.found
           THEN /\ result.outcome = "MesonException"
                /\ result.at = "guile"
                /\ result.msg = "guile not found"
           ELSE IF Kept(want_modules, Codes, FALSE) # <<>>
           THEN /\ result.outcome = "MesonException"
                /\ result.at = "modules"
                /\ result.msg = "guile is missing modules: "
                                \o Join(", ", Kept(want_modules, Codes, FALSE))
           ELSE IF ~guild.found
           THEN /\ result.outcome = "MesonException"
                /\ result.at = "guild"
                /\ result.msg = "guild not found"
           ELSE /\ result.outcome = "GuileInstallation"
                /\ result.guile = guile /\ result.guild = guild

C3_Witness ==
    /\ Finished /\ required
    /\ want_modules = <<"ice-9 format", "srfi srfi-1">>
    /\ Codes = <<0, 1>>
    /\ ~guild.found
    /\ result.msg = "guile is missing modules: srfi srfi-1"

(* C4 as stated: every call that ends in an exception has logged its       *)
(* diagnostic line before.                                                 *)
C4_LoggedBeforeEveryError ==
    (Finished /\ result.outcome = "MesonException") => Len(logged) >= 1

(* C4 amended: the line is logged exactly once before the verdict chain    *)
(* runs, so every call that ends in the guile, modules or guild exception  *)
(* has logged it; a call that ends at the dependency lookup (exception or  *)
(* None) has logged nothing.                                               *)
C4_LoggedBeforeVerdictErrors ==
    /\ pc = "verdict" => Len(logged) = 1
    /\ (Finished /\ result.at \in {"guile", "modules", "guild"}) =>
          Len(logged) = 1
    /\ (Finished /\ result.at = "libguile") => logged = <<>>

C4_Witness ==
    /\ Finished
    /\ result.outcome = "MesonException"
    /\ result.at = "guild"
    /\ Len(logged) = 1

(* C5: when the loop ran, there was one probe per requested entry,         *)
(* |found| + |missing| = |requested|, found is the subsequence of the      *)
(* requested entries whose probe exited 0 and missing the subsequence      *)
(* whose probe exited non-zero, both in caller order.                      *)
C5_StableFilter ==
    Probed =>
        /\ Len(spawned) = Len(want_modules)
        /\ Len(found_modules) + Len(missing_modules) = Len(want_modules)
        /\ found_modules = Kept(want_modules, Codes, TRUE)
        /\ missing_modules = Kept(want_modules, Codes, FALSE)

C5_Witness ==
    /\ Probed
    /\ want_modules = <<"srfi srfi-1", "ice-9 format">>
    /\ found_modules = want_modules

(* C6 as stated: after probing, found and missing together hold exactly    *)
(* the requested names and no name is in both.                             *)
C6_PartitionByName ==
    Probed =>
        /\ Set(found_modules) \cup Set(missing_modules) = Set(want_modules)
        /\ Set(found_modules) \cap Set(missing_modules) = {}

(* C6 amended: after probing, found and missing together hold exactly the  *)
(* requested names and every requested entry went to exactly one of the    *)
(* two lists; a name is in both lists only if the request repeats it and   *)
(* two of its probes disagreed (one exited 0, one non-zero), so for a      *)
(* request without repeated names the two lists are disjoint.              *)
C6_PartitionByEntry ==
    Probed =>
        /\ Set(found_modules) \cup Set(missing_modules) = Set(want_modules)
        /\ Len(found_modules) + Len(missing_modules) = Len(want_modules)
        /\ \A m \in Set(found_modules) \cap Set(missing_modules) :
              \E j, k \in DOMAIN want_modules :
                  /\ j # k
                  /\ want_modules[j] = m /\ want_modules[k] = m
                  /\ Codes[j] = 0 /\ Codes[k] # 0

C6_Witness ==
    /\ Probed
    /\ Set(found_modules) \cap Set(missing_modules) # {}

(* C7: a call never has more subprocesses behind it than requested         *)
(* entries; a finished call has spawned none if the dependency or guile    *)
(* was not found or no module was requested, and otherwise exactly one per *)
(* requested entry, the k-th one importing the k-th entry.                 *)
C7_OneSpawnPerModule ==
    /\ pc # "idle" => Len(spawned) <= Len(want_modules)
    /\ Finished =>
          IF libguile.found /\ guile.found
          THEN /\ Len(spawned) = Len(want_modules)
               /\ \A k \in DOMAIN spawned :
                     /\ Len(spawned[k].argv) = 3
                     /\ spawned[k].argv[1] = guile.command[1]
                     /\ spawned[k].argv[3] =
                           "(use-modules (" \o want_modules[k] \o "))"
          ELSE spawned = <<>>

C7_Witness ==
    /\ Finished
    /\ Len(spawned) = 2
    /\ spawned[1].returncode # 0
    /\ want_modules[1] # want_modules[2]

(* C8: in the logged line the token after "found:" is YES exactly when     *)
(* guile is found and nothing is missing, and NO otherwise; the invocation *)
(* follows exactly under YES; "modules:" and the comma-joined found list   *)
(* end the line exactly when some module was found.                        *)
C8_DiagnosticLine ==
    (AfterProbe /\ pc # "log") =>
        /\ Len(logged) = 1
        /\ \E k \in DOMAIN Line : Line[k] = Plain("found:")
        /\ LET yes == guile.found /\ missing_modules = <<>>
               v == FoundAt + 1
               rest == SubSeq(Line, v + 1, Len(Line))
               invocation == <<Plain("(" \o guile.command[1] \o ")")>>
               modules == <<Plain("modules:"),
                            Plain(Join(", ", found_modules))>>
           IN /\ Line[v] = IF yes THEN Green("YES") ELSE Red("NO")
              /\ rest = (IF yes THEN invocation ELSE <<>>)
                        \o (IF found_modules # <<>> THEN modules ELSE <<>>)

C8_Witness ==
    /\ AfterProbe /\ pc # "log"
    /\ Red("NO") \in Set(Line)
    /\ Plain("modules:") \in Set(Line)
    /\ guild.found /\ required

(* C9: the installations map stays as constructed, and a finished call     *)
(* that had the same arguments and got the same answers from pkg-config    *)
(* and from its probes as an earlier call ended the same way, logged the   *)
(* same line and spawned the same probes.                                  *)
C9_SameInputsSameOutcome ==
    /\ installations = <<>>
    /\ (Finished /\ saved.used
        /\ saved.args = args /\ saved.required = required
        /\ saved.want_modules = want_modules
        /\ saved.libguile = libguile
        /\ saved.returncodes = Codes) =>
          /\ saved.result = result
          /\ saved.logged = logged
          /\ saved.argvs = [k \in 1..Len(spawned) |-> spawned[k].argv]

C9_Witness ==
    /\ Finished /\ saved.used
    /\ saved.args = args /\ saved.required = required
    /\ saved.want_modules = want_modules
    /\ saved.libguile = libguile
    /\ saved.returncodes = Codes
    /\ Len(spawned) = 1
    /\ Len(logged) = 1

(* C10: when the dependency is found but its guile variable is absent or   *)
(* empty, guile is not found and no probe is spawned, and with required    *)
(* false the call ends in None.                                            *)
C10_NoInterpreterNotRequired ==
    (AfterExtract /\ (~libguile.guile.present \/ libguile.guile.value = "")) =>
        /\ ~guile.found
        /\ spawned = <<>>
        /\ (Finished /\ ~required) => result.outcome = "None"

C10_Witness ==
    /\ Finished /\ ~required
    /\ libguile.found /\ ~libguile.guile.present
    /\ want_modules # <<>>
    /\ result.outcome = "None"
    /\ result.at = "guile"

====
